---- MODULE Spec2Model ----
(***************************************************************************)
(* Model of DMM/DMM34401A.py: the serial handle of an HP/Agilent 34401A    *)
(* multimeter (class DMM34401A) and the module functions that create the   *)
(* handles (init_DMMs), poll them (read_DMMs) and remove them (del_DMMs).  *)
(* One behaviour is one session: the caller optionally creates the handles,*)
(* calls read_DMMs once, and afterwards may call del_DMMs and drop its     *)
(* list.  Text sent on a connection is kept as the strings the code        *)
(* builds; reply lines are kept as sequences of one-character strings.     *)
(***************************************************************************)
EXTENDS Integers, Sequences, FiniteSets, TLC

(* ------------------------------ bounds --------------------------------- *)
MaxDev == 2        \* at most this many USB serial ports / handles
MaxTicks == 2      \* the polling loop is followed for at most this many rows
MaxDur == 2        \* meas_time is drawn from 0..MaxDur (seconds)
MaxJitter == 1     \* extra seconds one loop iteration may take

Devs == 1..MaxDev
RangeVals == {1, 10}              \* values a caller passes as val_range
ResExps == {6}                    \* val_res = 10^-e, e.g. 1e-6 (line 24)
SleepTimes == {0, 1}              \* values of sleep_time

(* ------------------------- measurement modes --------------------------- *)
KnownModes == {"DCV", "ACV", "DCI", "ACI", "RES2", "RES4", "FREQ", "PER"}
Modes == KnownModes \cup {"TEMP"}   \* "TEMP" stands for any other string
RunModes == {"DCV", "TEMP"}         \* the modes the sampling runs are given

(* ----------------------------- str() ----------------------------------- *)
Digit == <<"0", "1", "2", "3", "4", "5", "6", "7", "8", "9">>

RECURSIVE IntStr(_)
IntStr(n) == IF n < 10 THEN Digit[n + 1]
             ELSE IntStr(n \div 10) \o Digit[(n % 10) + 1]

RECURSIVE Zeros(_)
Zeros(k) == IF k <= 0 THEN "" ELSE "0" \o Zeros(k - 1)

\* repr of the float 10^-e: positional down to 1e-4, scientific below
FloatStr(e) == IF e <= 4 THEN "0." \o Zeros(e - 1) \o "1"
               ELSE "1e-" \o (IF e < 10 THEN "0" ELSE "") \o IntStr(e)

(* --------------------------- wire commands ----------------------------- *)
REMOTE == "SYSTem:REMote\n"
READQ == "READ?\n"

\* the f-string of one branch of set_CONF
ConfCmd(keyword, val_range, val_res) ==
    keyword \o " " \o IntStr(val_range) \o ", " \o FloatStr(val_res) \o "\n"

\* set_CONF with the RES4 branch pasted from the RES2 branch
set_CONF_FresAsRes(conf, val_range, val_res) ==
    IF conf = "DCV" THEN <<ConfCmd("CONF:VOLT:DC", val_range, val_res)>>
    ELSE IF conf = "ACV" THEN <<ConfCmd("CONF:VOLT:AC", val_range, val_res)>>
    ELSE IF conf = "DCI" THEN <<ConfCmd("CONF:CURR:DC", val_range, val_res)>>
    ELSE IF conf = "ACI" THEN <<ConfCmd("CONF:CURR:AC", val_range, val_res)>>
    ELSE IF conf = "RES2" THEN <<ConfCmd("CONF:RES", val_range, val_res)>>
    ELSE IF conf = "RES4" THEN <<ConfCmd("CONF:RES", val_range, val_res)>>
    ELSE IF conf = "FREQ" THEN <<ConfCmd("CONF:FREQ", val_range, val_res)>>
    ELSE IF conf = "PER" THEN <<ConfCmd("CONF:PER", val_range, val_res)>>
    ELSE <<>>

\* set_CONF with the else branch formatting the mode into a command
set_CONF_ElseSends(conf, val_range, val_res) ==
    IF conf = "DCV" THEN <<ConfCmd("CONF:VOLT:DC", val_range, val_res)>>
    ELSE IF conf = "ACV" THEN <<ConfCmd("CONF:VOLT:AC", val_range, val_res)>>
    ELSE IF conf = "DCI" THEN <<ConfCmd("CONF:CURR:DC", val_range, val_res)>>
    ELSE IF conf = "ACI" THEN <<ConfCmd("CONF:CURR:AC", val_range, val_res)>>
    ELSE IF conf = "RES2" THEN <<ConfCmd("CONF:RES", val_range, val_res)>>
    ELSE IF conf = "RES4" THEN <<ConfCmd("CONF:FRES", val_range, val_res)>>
    ELSE IF conf = "FREQ" THEN <<ConfCmd("CONF:FREQ", val_range, val_res)>>
    ELSE IF conf = "PER" THEN <<ConfCmd("CONF:PER", val_range, val_res)>>
    ELSE <<ConfCmd("CONF:" \o conf, val_range, val_res)>>

\* what set_CONF writes: the sequence of commands (empty for the else: pass)
set_CONF(conf, val_range, val_res) ==
    IF conf = "DCV" THEN <<ConfCmd("CONF:VOLT:DC", val_range, val_res)>>
    ELSE IF conf = "ACV" THEN <<ConfCmd("CONF:VOLT:AC", val_range, val_res)>>
    ELSE IF conf = "DCI" THEN <<ConfCmd("CONF:CURR:DC", val_range, val_res)>>
    ELSE IF conf = "ACI" THEN <<ConfCmd("CONF:CURR:AC", val_range, val_res)>>
    ELSE IF conf = "RES2" THEN <<ConfCmd("CONF:RES", val_range, val_res)>>
    ELSE IF conf = "RES4" THEN <<ConfCmd("CONF:FRES", val_range, val_res)>>
    ELSE IF conf = "FREQ" THEN <<ConfCmd("CONF:FREQ", val_range, val_res)>>
    ELSE IF conf = "PER" THEN <<ConfCmd("CONF:PER", val_range, val_res)>>
    ELSE <<>>

(* ------------------------- reply decoding ------------------------------ *)
\* reply lines the instrument may put on the line (bytes as 1-char strings)
\* reply lines as the 34401A sends them over RS-232, terminated by CR LF:
\* the k-th reading of instrument d (readings are told apart by instrument
\* and by position), and a line that is not a number
Reading(d, k) == <<Digit[d + 1], Digit[k + 1], "\r", "\n">>
Malformed == <<"?", "\r", "\n">>

Space == {" ", "\r", "\n", "\t"}

RECURSIVE LStrip(_)
LStrip(s) == IF s # <<>> /\ Head(s) \in Space THEN LStrip(Tail(s)) ELSE s

RECURSIVE RStrip(_)
RStrip(s) == IF s # <<>> /\ s[Len(s)] \in Space
             THEN RStrip(SubSeq(s, 1, Len(s) - 1)) ELSE s

DigitVal(c) == CHOOSE k \in 0..9 : Digit[k + 1] = c

RECURSIVE DigitsVal(_)
DigitsVal(s) == IF s = <<>> THEN 0
                ELSE 10 * DigitsVal(SubSeq(s, 1, Len(s) - 1)) + DigitVal(s[Len(s)])

\* the outcome of float(): a value, or ValueError raised
NoValue == [ok |-> FALSE, v |-> 0]

\* float(b): surrounding whitespace is ignored, then a run of digits
ToFloat(b) ==
    LET t == LStrip(RStrip(b))
    IN IF t # <<>> /\ \A i \in 1..Len(t) : \E k \in 1..10 : Digit[k] = t[i]
       THEN [ok |-> TRUE, v |-> DigitsVal(t)] ELSE NoValue

\* temp[:-2]
DropLast2(temp) == SubSeq(temp, 1, Len(temp) - 2)

\* float(temp[:-2]) of lines 186 and 190
Decode(temp) == ToFloat(DropLast2(temp))

(* ------------------------------ state ---------------------------------- *)
VARIABLES
    ports,         \* number of USB serial ports read_ports() finds
    argGiven,      \* TRUE: the caller passes the list made by init_DMMs()
    conf, val_range, val_res, meas_time, sleep_time,   \* arguments of read_DMMs
    dmms,          \* the local list dmms of read_DMMs
    own,           \* TRUE: dmms was created inside read_DMMs (line 40)
    isOpen,        \* isOpen[d]: self.ser of handle d is open
    tx,            \* tx[d]: the commands written on handle d, in order
    refs,          \* refs[d]: references that keep handle d alive
    pc,            \* position in read_DMMs
    idx,           \* position of the running for loop in dmms
    tic, toc,      \* clock readings of lines 59 and 68
    measurements,  \* the list measurements of the current iteration
    output,        \* the list output
    result,        \* how read_DMMs ended
    matrix,        \* the array it returned
    dropped,       \* the caller let go of its list
    delCalled,     \* del_DMMs has returned
    readLog,       \* readLog[d]: the values read_meas returned on handle d
    confCalls,     \* the set_CONF calls made, in order
    lastRead,      \* the reply lines the running/last read_meas consumed
    inFlight,      \* handle whose READ? has been written and not yet answered
    cancelPc,      \* position at which KeyboardInterrupt was raised
    ticks,         \* loop iterations that reached the end of the loop body
    tocLog         \* the clock readings of line 68, in order

vars == <<ports, argGiven, conf, val_range, val_res, meas_time, sleep_time,
          dmms, own, isOpen, tx, refs, pc, idx, tic, toc, measurements,
          output, result, matrix, dropped, delCalled, readLog, confCalls,
          lastRead, inFlight, cancelPc, ticks, tocLog>>

hist == <<ticks, tocLog>>

args == <<ports, argGiven, conf, val_range, val_res, meas_time, sleep_time>>

SettleDelay == 2

NoResult == "running"
NoMatrix == <<"no array">>

\* 1..n as a list
Upto(n) == [i \in 1..n |-> i]

\* lists of range values of every length 0..MaxDev+1, neighbours differing
RangeLists == { [i \in 1..k |-> IF i % 2 = 1 THEN 1 ELSE 10] :
                  k \in 0..(MaxDev + 1) }

\* val_range: a number or a list (isinstance(val_range, list))
RangeArgs == { [list |-> FALSE, num |-> r, items |-> <<>>] : r \in RangeVals }
             \cup { [list |-> TRUE, num |-> 0, items |-> l] : l \in RangeLists }

\* InitWrites with the test of is_open inverted
InitWrites_Inverted(is_open) == IF ~is_open THEN <<REMOTE>> ELSE <<>>

\* __init__, lines 130-131: what the constructor writes on its connection
InitWrites(is_open) == IF is_open THEN <<REMOTE>> ELSE <<>>

\* DMM34401A(port) for the ports 1..n that opened: open, REMOTE written
Opened(n) == [isOpen |-> [d \in Devs |-> d <= n],
              tx |-> [d \in Devs |-> InitWrites(d <= n)]]

Init ==
    /\ ports \in 0..MaxDev
    /\ argGiven \in BOOLEAN
    /\ conf \in RunModes
    /\ val_range \in RangeArgs
    /\ val_res \in ResExps
    /\ meas_time \in 0..MaxDur
    /\ sleep_time \in SleepTimes
    /\ dmms = IF argGiven THEN Upto(ports) ELSE <<>>
    /\ own = FALSE
    /\ isOpen = Opened(IF argGiven THEN ports ELSE 0).isOpen
    /\ tx = Opened(IF argGiven THEN ports ELSE 0).tx
    /\ refs = [d \in Devs |-> IF argGiven /\ d <= ports THEN 1 ELSE 0]
    /\ pc = "entry"
    /\ idx = 1
    /\ tic = 0
    /\ toc = 0
    /\ measurements = <<>>
    /\ output = <<>>
    /\ result = NoResult
    /\ matrix = NoMatrix
    /\ dropped = FALSE
    /\ delCalled = FALSE
    /\ readLog = [d \in Devs |-> <<>>]
    /\ confCalls = <<>>
    /\ lastRead = <<>>
    /\ inFlight = 0
    /\ cancelPc = "none"
    /\ ticks = 0
    /\ tocLog = <<>>

(* --------------------------- leaving read_DMMs ------------------------- *)
\* the frame of read_DMMs goes away: a list it created itself loses its
\* only reference, a list of the caller stays referenced by the caller
ExitRefs == IF own THEN [d \in Devs |-> 0] ELSE refs

Raise(exc) ==
    /\ pc' = "done"
    /\ result' = exc
    /\ refs' = ExitRefs
    /\ UNCHANGED matrix

Return ==
    /\ pc' = "done"
    /\ result' = "returned"
    /\ matrix' = output
    /\ refs' = ExitRefs

(* ------------------------- read_DMMs, lines 38-43 ---------------------- *)
\* dmms is a non-empty list: used as it is
EntryGiven ==
    /\ UNCHANGED hist
    /\ pc = "entry"
    /\ dmms # <<>>
    /\ pc' = "conf"
    /\ UNCHANGED <<args, dmms, own, isOpen, tx, refs, idx, tic, toc,
                   measurements, output, result, matrix, dropped, delCalled,
                   readLog, confCalls, lastRead, inFlight, cancelPc>>

\* EntryInit with init_DMMs catching the exception and skipping the port
EntryInit_SkipsFailed ==
    /\ UNCHANGED hist
    /\ pc = "entry"
    /\ dmms = <<>>
    /\ \E fail \in 0..ports :
         IF fail = 0
         THEN /\ dmms' = Upto(ports)
              /\ own' = TRUE
              /\ isOpen' = Opened(ports).isOpen
              /\ tx' = Opened(ports).tx
              /\ refs' = [d \in Devs |-> IF d <= ports THEN 1 ELSE 0]
              /\ pc' = IF ports = 0 THEN "settle" ELSE "conf"
              /\ UNCHANGED <<result, matrix>>
         ELSE /\ dmms' = [i \in 1..(ports - 1) |-> IF i < fail THEN i ELSE i + 1]
              /\ own' = TRUE
              /\ isOpen' = [d \in Devs |-> d <= ports /\ d # fail]
              /\ tx' = [d \in Devs |-> IF d <= ports /\ d # fail
                                       THEN <<REMOTE>> ELSE <<>>]
              /\ refs' = [d \in Devs |-> IF d <= ports /\ d # fail
                                         THEN 1 ELSE 0]
              /\ pc' = IF ports = 1 THEN "settle" ELSE "conf"
              /\ UNCHANGED <<result, matrix>>
    /\ UNCHANGED <<args, idx, tic, toc, measurements, output, dropped,
                   delCalled, readLog, confCalls, lastRead, inFlight, cancelPc>>

\* dmms is None or empty: init_DMMs() opens one handle per port, in order;
\* fail = k > 0: serial.Serial raises for the k-th port
EntryInit ==
    /\ UNCHANGED hist
    /\ pc = "entry"
    /\ dmms = <<>>
    /\ \E fail \in 0..ports :
         IF fail = 0
         THEN /\ dmms' = Upto(ports)
              /\ own' = TRUE
              /\ isOpen' = Opened(ports).isOpen
              /\ tx' = Opened(ports).tx
              /\ refs' = [d \in Devs |-> IF d <= ports THEN 1 ELSE 0]
              /\ pc' = IF ports = 0 THEN "settle" ELSE "conf"
              /\ UNCHANGED <<result, matrix>>
         ELSE /\ isOpen' = Opened(fail - 1).isOpen
              /\ tx' = Opened(fail - 1).tx
              /\ pc' = "done"
              /\ result' = "SerialException"
              /\ UNCHANGED <<dmms, own, refs, matrix>>
    /\ UNCHANGED <<args, idx, tic, toc, measurements, output, dropped,
                   delCalled, readLog, confCalls, lastRead, inFlight, cancelPc>>

(* ------------------------- read_DMMs, lines 45-52 ---------------------- *)
\* Configure indexing the range list with 0 in place of idx
Configure_FirstRange ==
    /\ UNCHANGED hist
    /\ pc = "conf"
    /\ idx <= Len(dmms)
    /\ IF val_range.list /\ idx > Len(val_range.items)
       THEN /\ Raise("IndexError")
            /\ UNCHANGED <<tx, confCalls, idx>>
       ELSE LET r == IF val_range.list THEN val_range.items[1]
                     ELSE val_range.num
                d == dmms[idx]
            IN /\ tx' = [tx EXCEPT ![d] = @ \o set_CONF(conf, r, val_res)]
               /\ confCalls' = Append(confCalls,
                       [dev |-> d, conf |-> conf, val_range |-> r,
                        val_res |-> val_res])
               /\ idx' = idx + 1
               /\ pc' = IF idx = Len(dmms) THEN "settle" ELSE "conf"
               /\ UNCHANGED <<result, matrix, refs>>
    /\ UNCHANGED <<args, dmms, own, isOpen, tic, toc, measurements, output,
                   dropped, delCalled, readLog, lastRead, inFlight, cancelPc>>

\* one iteration of the configuring for loop
Configure ==
    /\ UNCHANGED hist
    /\ pc = "conf"
    /\ idx <= Len(dmms)
    /\ IF val_range.list /\ idx > Len(val_range.items)
       THEN /\ Raise("IndexError")
            /\ UNCHANGED <<tx, confCalls, idx>>
       ELSE LET r == IF val_range.list THEN val_range.items[idx]
                     ELSE val_range.num
                d == dmms[idx]
            IN /\ tx' = [tx EXCEPT ![d] = @ \o set_CONF(conf, r, val_res)]
               /\ confCalls' = Append(confCalls,
                       [dev |-> d, conf |-> conf, val_range |-> r,
                        val_res |-> val_res])
               /\ idx' = idx + 1
               /\ pc' = IF idx = Len(dmms) THEN "settle" ELSE "conf"
               /\ UNCHANGED <<result, matrix, refs>>
    /\ UNCHANGED <<args, dmms, own, isOpen, tic, toc, measurements, output,
                   dropped, delCalled, readLog, lastRead, inFlight, cancelPc>>

(* ------------------------- read_DMMs, lines 54-60 ---------------------- *)
Settle ==
    /\ UNCHANGED hist
    /\ pc = "settle"
    /\ output' = <<>>
    /\ tic' = SettleDelay
    /\ toc' = SettleDelay
    /\ pc' = "loop"
    /\ UNCHANGED <<args, dmms, own, isOpen, tx, refs, idx, measurements,
                   result, matrix, dropped, delCalled, readLog, confCalls,
                   lastRead, inFlight, cancelPc>>

(* ------------------------- read_DMMs, lines 63-77 ---------------------- *)
\* Tick of a loop that runs its body once before the first test
Tick_DoWhile ==
    /\ pc = "loop"
    /\ ((toc - tic) < meas_time \/ tocLog = <<>>)
    /\ Len(output) < MaxTicks
    /\ \E jitter \in 0..MaxJitter : toc' = toc + sleep_time + jitter
    /\ tocLog' = Append(tocLog, toc')
    /\ UNCHANGED ticks
    /\ measurements' = <<>>
    /\ idx' = 1
    /\ pc' = IF dmms = <<>> THEN "append" ELSE "read"
    /\ UNCHANGED <<args, dmms, own, isOpen, tx, refs, tic, output, result,
                   matrix, dropped, delCalled, readLog, confCalls, lastRead,
                   inFlight, cancelPc>>

\* Tick with the while test written <= in place of <
Tick_LessEq ==
    /\ pc = "loop"
    /\ (toc - tic) <= meas_time
    /\ Len(output) < MaxTicks
    /\ \E jitter \in 0..MaxJitter : toc' = toc + sleep_time + jitter
    /\ tocLog' = Append(tocLog, toc')
    /\ UNCHANGED ticks
    /\ measurements' = <<>>
    /\ idx' = 1
    /\ pc' = IF dmms = <<>> THEN "append" ELSE "read"
    /\ UNCHANGED <<args, dmms, own, isOpen, tx, refs, tic, output, result,
                   matrix, dropped, delCalled, readLog, confCalls, lastRead,
                   inFlight, cancelPc>>

\* the while test holds: sleep, read the clock, start an empty row
Tick ==
    /\ pc = "loop"
    /\ (toc - tic) < meas_time
    /\ Len(output) < MaxTicks
    /\ \E jitter \in 0..MaxJitter : toc' = toc + sleep_time + jitter
    /\ tocLog' = Append(tocLog, toc')
    /\ UNCHANGED ticks
    /\ measurements' = <<>>
    /\ idx' = 1
    /\ pc' = IF dmms = <<>> THEN "append" ELSE "read"
    /\ UNCHANGED <<args, dmms, own, isOpen, tx, refs, tic, output, result,
                   matrix, dropped, delCalled, readLog, confCalls, lastRead,
                   inFlight, cancelPc>>

\* the while test fails: line 77
Finish ==
    /\ UNCHANGED hist
    /\ pc = "loop"
    /\ ~((toc - tic) < meas_time)
    /\ Return
    /\ UNCHANGED <<args, dmms, own, isOpen, tx, idx, tic, toc, measurements,
                   output, dropped, delCalled, readLog, confCalls, lastRead,
                   inFlight, cancelPc>>

\* what readline() may return on handle d: its next reading, or a line that
\* is not a number
Replies(d) == {Reading(d, Len(readLog[d]) + 1), Malformed}

\* ReadSend writing READ? on this and every later handle before any reply
ReadSend_Ahead ==
    /\ UNCHANGED hist
    /\ pc = "read"
    /\ tx' = [d \in Devs |-> IF \E j \in idx..Len(dmms) : dmms[j] = d
                             THEN Append(tx[d], READQ) ELSE tx[d]]
    /\ inFlight' = dmms[idx]
    /\ lastRead' = <<>>
    /\ pc' = "rd1"
    /\ UNCHANGED <<args, dmms, own, isOpen, refs, idx, tic, toc, measurements,
                   output, result, matrix, dropped, delCalled, readLog,
                   confCalls, cancelPc>>

\* read_meas, line 184: READ? is written on the handle of this iteration
ReadSend ==
    /\ UNCHANGED hist
    /\ pc = "read"
    /\ tx' = [tx EXCEPT ![dmms[idx]] = Append(@, READQ)]
    /\ inFlight' = dmms[idx]
    /\ lastRead' = <<>>
    /\ pc' = "rd1"
    /\ UNCHANGED <<args, dmms, own, isOpen, refs, idx, tic, toc, measurements,
                   output, result, matrix, dropped, delCalled, readLog,
                   confCalls, cancelPc>>

\* Measured with measurements.insert(0, v) in place of append
Measured_Prepend(v) ==
    /\ measurements' = <<v>> \o measurements
    /\ readLog' = [readLog EXCEPT ![dmms[idx]] = Append(@, v)]
    /\ inFlight' = 0
    /\ idx' = idx + 1
    /\ pc' = IF idx = Len(dmms) THEN "append" ELSE "read"
    /\ UNCHANGED <<result, matrix, refs>>

\* read_meas returns v to line 71
Measured(v) ==
    /\ measurements' = Append(measurements, v)
    /\ readLog' = [readLog EXCEPT ![dmms[idx]] = Append(@, v)]
    /\ inFlight' = 0
    /\ idx' = idx + 1
    /\ pc' = IF idx = Len(dmms) THEN "append" ELSE "read"
    /\ UNCHANGED <<result, matrix, refs>>

\* ReadLine1 without the except clause: the first ValueError propagates
ReadLine1_NoRetry ==
    /\ UNCHANGED hist
    /\ pc = "rd1"
    /\ \E temp \in Replies(dmms[idx]) :
         /\ lastRead' = Append(lastRead, temp)
         /\ IF Decode(temp).ok
            THEN Measured(Decode(temp).v)
            ELSE /\ Raise("ValueError")
                 /\ inFlight' = 0
                 /\ UNCHANGED <<measurements, readLog, idx>>
    /\ UNCHANGED <<args, dmms, own, isOpen, tx, tic, toc, output, dropped,
                   delCalled, confCalls, cancelPc>>

\* read_meas, lines 185-188: the first reply line
ReadLine1 ==
    /\ UNCHANGED hist
    /\ pc = "rd1"
    /\ \E temp \in Replies(dmms[idx]) :
         /\ lastRead' = Append(lastRead, temp)
         /\ IF Decode(temp).ok
            THEN Measured(Decode(temp).v)
            ELSE /\ pc' = "rd2"
                 /\ UNCHANGED <<measurements, readLog, inFlight, idx, result,
                                matrix, refs>>
    /\ UNCHANGED <<args, dmms, own, isOpen, tx, tic, toc, output, dropped,
                   delCalled, confCalls, cancelPc>>

\* ReadLine2 with the second ValueError swallowed and 0.0 returned
ReadLine2_Substitutes ==
    /\ UNCHANGED hist
    /\ pc = "rd2"
    /\ \E temp \in Replies(dmms[idx]) :
         /\ lastRead' = Append(lastRead, temp)
         /\ IF Decode(temp).ok
            THEN Measured(Decode(temp).v)
            ELSE Measured(0)
    /\ UNCHANGED <<args, dmms, own, isOpen, tx, tic, toc, output, dropped,
                   delCalled, confCalls, cancelPc>>

\* ReadLine2 with the except clause writing READ? again before readline
ReadLine2_Resends ==
    /\ UNCHANGED hist
    /\ pc = "rd2"
    /\ \E temp \in Replies(dmms[idx]) :
         /\ lastRead' = Append(lastRead, temp)
         /\ IF Decode(temp).ok
            THEN Measured(Decode(temp).v)
            ELSE /\ Raise("ValueError")
                 /\ inFlight' = 0
                 /\ UNCHANGED <<measurements, readLog, idx>>
    /\ tx' = [tx EXCEPT ![dmms[idx]] = Append(@, READQ)]
    /\ UNCHANGED <<args, dmms, own, isOpen, tic, toc, output, dropped,
                   delCalled, confCalls, cancelPc>>

\* read_meas, lines 189-190: the second reply line; a ValueError raised
\* here leaves read_meas and, not being a KeyboardInterrupt, read_DMMs
ReadLine2 ==
    /\ UNCHANGED hist
    /\ pc = "rd2"
    /\ \E temp \in Replies(dmms[idx]) :
         /\ lastRead' = Append(lastRead, temp)
         /\ IF Decode(temp).ok
            THEN Measured(Decode(temp).v)
            ELSE /\ Raise("ValueError")
                 /\ inFlight' = 0
                 /\ UNCHANGED <<measurements, readLog, idx>>
    /\ UNCHANGED <<args, dmms, own, isOpen, tx, tic, toc, output, dropped,
                   delCalled, confCalls, cancelPc>>

\* lines 73-75: the row is built, printed and appended
AppendRow ==
    /\ pc = "append"
    /\ output' = Append(output, <<toc - tic>> \o measurements)
    /\ lastRead' = <<>>
    /\ ticks' = ticks + 1
    /\ UNCHANGED tocLog
    /\ pc' = "loop"
    /\ UNCHANGED <<args, dmms, own, isOpen, tx, refs, idx, tic, toc,
                   measurements, result, matrix, dropped, delCalled, readLog,
                   confCalls, inFlight, cancelPc>>

(* --------------------------- KeyboardInterrupt ------------------------- *)
\* positions inside the try statement of lines 63-81
TryPcs == {"loop", "read", "rd1", "rd2", "append"}
RunPcs == {"entry", "conf", "settle"} \cup TryPcs

\* Interrupt with the handler returning output plus the row under way
Interrupt_KeepsPartialRow ==
    /\ UNCHANGED hist
    /\ pc \in RunPcs
    /\ cancelPc' = pc
    /\ IF pc \in TryPcs
       THEN /\ pc' = "done"
            /\ result' = "returned"
            /\ matrix' = Append(output, <<toc - tic>> \o measurements)
            /\ refs' = ExitRefs
       ELSE Raise("KeyboardInterrupt")
    /\ UNCHANGED <<args, dmms, own, isOpen, tx, idx, tic, toc, measurements,
                   output, dropped, delCalled, readLog, confCalls, lastRead,
                   inFlight>>

\* the operator's Ctrl-C is raised in the main thread at its current
\* position: lines 79-81 catch it inside the try, elsewhere it propagates
Interrupt ==
    /\ UNCHANGED hist
    /\ pc \in RunPcs
    /\ cancelPc' = pc
    /\ IF pc \in TryPcs THEN Return ELSE Raise("KeyboardInterrupt")
    /\ UNCHANGED <<args, dmms, own, isOpen, tx, idx, tic, toc, measurements,
                   output, dropped, delCalled, readLog, confCalls, lastRead,
                   inFlight>>

(* ------------------------------ teardown ------------------------------- *)
\* __del__ runs for the handles nothing refers to any more: their ports close
Finalize ==
    /\ UNCHANGED hist
    /\ \E d \in Devs : refs[d] = 0 /\ isOpen[d]
    /\ isOpen' = [d \in Devs |-> isOpen[d] /\ refs[d] # 0]
    /\ UNCHANGED <<args, dmms, own, tx, refs, pc, idx, tic, toc, measurements,
                   output, result, matrix, dropped, delCalled, readLog,
                   confCalls, lastRead, inFlight, cancelPc>>

\* one iteration of del_DMMs: the loop variable dmm is bound to the handle
\* (one more reference) and "del dmm" removes that binding again; the
\* handle is finalized on the spot only if no reference is left
DelOne(st, d) ==
    LET bound == [st.refs EXCEPT ![d] = @ + 1]
        unbound == [bound EXCEPT ![d] = @ - 1]
    IN [refs |-> unbound,
        isOpen |-> IF unbound[d] = 0 THEN [st.isOpen EXCEPT ![d] = FALSE]
                   ELSE st.isOpen]

RECURSIVE del_DMMs(_, _)
del_DMMs(st, list) ==
    IF list = <<>> THEN st
    ELSE del_DMMs(DelOne(st, Head(list)), Tail(list))

\* the caller calls del_DMMs on the list it still holds
DelDMMs ==
    /\ UNCHANGED hist
    /\ pc = "done"
    /\ argGiven /\ ~dropped /\ ~delCalled
    /\ LET st == del_DMMs([refs |-> refs, isOpen |-> isOpen], Upto(ports))
       IN /\ refs' = st.refs
          /\ isOpen' = st.isOpen
    /\ delCalled' = TRUE
    /\ UNCHANGED <<args, dmms, own, tx, pc, idx, tic, toc, measurements,
                   output, result, matrix, dropped, readLog, confCalls,
                   lastRead, inFlight, cancelPc>>

\* the caller's list goes out of scope
DropList ==
    /\ UNCHANGED hist
    /\ pc = "done"
    /\ argGiven /\ ~dropped
    /\ refs' = [d \in Devs |-> IF d <= ports THEN refs[d] - 1 ELSE refs[d]]
    /\ dropped' = TRUE
    /\ UNCHANGED <<args, dmms, own, isOpen, tx, pc, idx, tic, toc,
                   measurements, output, result, matrix, delCalled, readLog,
                   confCalls, lastRead, inFlight, cancelPc>>

Next ==
    \/ EntryGiven
    \/ EntryInit
    \/ Configure
    \/ Settle
    \/ Tick
    \/ Finish
    \/ ReadSend
    \/ ReadLine1
    \/ ReadLine2
    \/ AppendRow
    \/ Interrupt
    \/ Finalize
    \/ DelDMMs
    \/ DropList

Spec == Init /\ [][Next]_vars

(* --------------- set_CONF called directly on one handle ---------------- *)
MaxCalls == 2                     \* set_CONF calls followed on the handle
ConfResExps == {3, 6}             \* val_res = 0.001 (line 142) or 1e-6

\* one open handle, made by DMM34401A(port); read_DMMs is not running
InitConf ==
    /\ ports = 1
    /\ argGiven = TRUE
    /\ conf \in Modes
    /\ val_range \in { a \in RangeArgs : ~a.list }
    /\ val_res \in ConfResExps
    /\ meas_time = 0
    /\ sleep_time = 0
    /\ dmms = <<1>>
    /\ own = FALSE
    /\ isOpen = Opened(1).isOpen
    /\ tx = Opened(1).tx
    /\ refs = [d \in Devs |-> IF d = 1 THEN 1 ELSE 0]
    /\ pc = "handle"
    /\ idx = 1
    /\ tic = 0
    /\ toc = 0
    /\ measurements = <<>>
    /\ output = <<>>
    /\ result = NoResult
    /\ matrix = NoMatrix
    /\ dropped = FALSE
    /\ delCalled = FALSE
    /\ readLog = [d \in Devs |-> <<>>]
    /\ confCalls = <<>>
    /\ lastRead = <<>>
    /\ inFlight = 0
    /\ cancelPc = "none"
    /\ ticks = 0
    /\ tocLog = <<>>

\* dmm.set_CONF(conf, val_range, val_res) with the arguments at hand; the
\* caller then picks the arguments of its next call
SetConfCall ==
    /\ pc = "handle"
    /\ Len(confCalls) < MaxCalls
    /\ tx' = [tx EXCEPT ![1] = @ \o set_CONF(conf, val_range.num, val_res)]
    /\ confCalls' = Append(confCalls,
            [dev |-> 1, conf |-> conf, val_range |-> val_range.num,
             val_res |-> val_res])
    /\ conf' \in Modes
    /\ val_range' \in { a \in RangeArgs : ~a.list }
    /\ val_res' \in ConfResExps
    /\ UNCHANGED <<ports, argGiven, meas_time, sleep_time, dmms, own, isOpen,
                   refs, pc, idx, tic, toc, measurements, output, result,
                   matrix, dropped, delCalled, readLog, lastRead, inFlight,
                   cancelPc, ticks, tocLog>>

NextConf == SetConfCall

SpecConf == InitConf /\ [][NextConf]_vars

(* ======================= properties of read_DMMs ======================= *)
\* the handle's log holds no CONF command: nothing or only SYSTem:REMote
Unconfigured(d) == tx[d] \in {<<>>, <<REMOTE>>}

\* row number i of a matrix m: the elapsed time of the i-th clock reading,
\* then the i-th value read from each handle, in the order of dmms
RowOK(m, i) ==
    /\ Len(m[i]) = 1 + Len(dmms)
    /\ i <= Len(tocLog)
    /\ m[i][1] = tocLog[i] - tic
    /\ \A j \in 1..Len(dmms) :
         /\ i <= Len(readLog[dmms[j]])
         /\ m[i][j + 1] = readLog[dmms[j]][i]

\* C1: a range list whose length differs from the number of handles (at
\* least one handle) makes read_DMMs fail, and no CONF command is written on
\* any handle before it fails (so the run never gets past the configuring
\* loop).
C1_RangeLengthChecked ==
    (/\ pc # "entry"
     /\ dmms # <<>>
     /\ val_range.list
     /\ Len(val_range.items) # Len(dmms))
        => /\ \A d \in Devs : Unconfigured(d)
           /\ pc \in {"conf", "done"}
           /\ (pc = "done" => result # "returned")

\* C2: when KeyboardInterrupt arrives in the polling loop after k
\* iterations have completed, the returned matrix has exactly k rows, each
\* with the elapsed time and one reading of every handle: no collected row
\* is dropped and the row under way is not returned.
C2_CancelKeepsCompleteRows ==
    (result = "returned" /\ cancelPc # "none")
        => /\ Len(matrix) = ticks
           /\ \A i \in 1..Len(matrix) : RowOK(matrix, i)

\* C2 witness: interrupted while the second handle's reply was awaited, one
\* iteration done and the first handle already read in the next
C2_Witness ==
    /\ result = "returned"
    /\ cancelPc = "rd1"
    /\ ticks = 1
    /\ Len(dmms) = 2
    /\ Len(measurements) = 1
    /\ Len(matrix) = 1

\* C3: a KeyboardInterrupt arriving at any position of read_DMMs never
\* leaves it as an exception: read_DMMs always returns a matrix.
C3_CancelNeverRaises ==
    cancelPc # "none" => (result = "returned" /\ matrix # NoMatrix)

\* C4: a KeyboardInterrupt never ends the run inside an iteration in which
\* some handles have been read and others not, and never while a READ? that
\* was written is still unanswered.
C4_CancelCooperative ==
    cancelPc \in TryPcs
        => /\ inFlight = 0
           /\ Len(measurements) \in {0, Len(dmms)}

(* ======================= properties of read_meas ======================= *)
\* the value the read_meas call that just returned gave to line 71
LastValue ==
    LET log == readLog[dmms[idx - 1]] IN log[Len(log)]

\* C5: read_meas retries once: a numeric first reply is returned; after a
\* malformed first reply a numeric second reply is returned; two malformed
\* replies raise ValueError; no call consumes more than two reply lines.
C5_RetryOnce ==
    /\ Len(lastRead) <= 2
    /\ pc = "rd2" => (Len(lastRead) = 1 /\ ~Decode(lastRead[1]).ok)
    /\ (pc \in {"read", "append"} /\ lastRead # <<>>)
         => IF Decode(lastRead[1]).ok
            THEN Len(lastRead) = 1 /\ LastValue = Decode(lastRead[1]).v
            ELSE /\ Len(lastRead) = 2
                 /\ Decode(lastRead[2]).ok
                 /\ LastValue = Decode(lastRead[2]).v
    /\ result = "ValueError"
         => /\ Len(lastRead) = 2
            /\ ~Decode(lastRead[1]).ok
            /\ ~Decode(lastRead[2]).ok

\* C5 witness: a call that returned the second reply after a malformed one
C5_Witness ==
    /\ pc = "read"
    /\ Len(lastRead) = 2
    /\ ~Decode(lastRead[1]).ok
    /\ LastValue = Decode(lastRead[2]).v
    /\ LastValue = 11

\* C6: a read whose two replies are both malformed ends read_DMMs with
\* ValueError: no matrix is returned, and no row is appended for the
\* iteration in which it happened (every row of output is a complete row).
C6_ParseFailureAborts ==
    /\ (/\ Len(lastRead) = 2
        /\ ~Decode(lastRead[1]).ok
        /\ ~Decode(lastRead[2]).ok) => (pc = "done" /\ result = "ValueError")
    /\ result = "ValueError"
         => /\ matrix = NoMatrix
            /\ Len(output) = ticks
            /\ \A i \in 1..Len(output) : RowOK(output, i)
            /\ \A j \in 1..Len(dmms) :
                 Len(readLog[dmms[j]]) = ticks + (IF j < idx THEN 1 ELSE 0)

\* C6 witness: the second handle fails in the second iteration
C6_Witness ==
    /\ result = "ValueError"
    /\ Len(output) = 1
    /\ idx = 2
    /\ Len(readLog[dmms[1]]) = 2

(* ======================== properties of del_DMMs ======================= *)
\* C7: once del_DMMs has returned, the serial port of every handle of the
\* list is closed.
C7_DelClosesAll ==
    delCalled => \A d \in 1..ports : ~isOpen[d]

(* ===================== shape of the matrix, set_CONF =================== *)
\* C8: at every moment of a run every row of output has 1 + N entries, the
\* elapsed time and then the reading of the j-th handle in column j + 1,
\* and output has one row per completed iteration.
C8_RowShape ==
    pc # "handle"
        => /\ Len(output) = ticks
           /\ \A i \in 1..Len(output) : RowOK(output, i)
           /\ result = "returned" => Len(matrix) = ticks

\* C8 witness: two rows of two handles whose readings differ
C8_Witness ==
    /\ pc = "loop"
    /\ Len(dmms) = 2
    /\ Len(output) = 2
    /\ output[1][2] # output[1][3]
    /\ output[2][2] # output[1][2]

\* the configuring loop has run to its end
ConfigDone ==
    \/ pc \in {"settle"} \cup TryPcs
    \/ pc = "done" /\ (result \in {"returned", "ValueError"} \/ cancelPc = "settle")

\* the range the i-th handle is to get
ExpectedRange(i) ==
    IF val_range.list THEN val_range.items[i] ELSE val_range.num

\* C9: with a scalar range, or a range list as long as dmms, read_DMMs makes
\* exactly one set_CONF call per handle, in the order of dmms, the i-th with
\* the scalar resp. the i-th list element, all with the same conf and val_res.
C9_ConfigureCalls ==
    (ConfigDone /\ (val_range.list => Len(val_range.items) = Len(dmms)))
        => confCalls = [i \in 1..Len(dmms) |->
                          [dev |-> dmms[i], conf |-> conf,
                           val_range |-> ExpectedRange(i), val_res |-> val_res]]

\* C9 witness: two handles configured from a list of two different ranges
C9_Witness ==
    /\ pc = "settle"
    /\ val_range.list
    /\ Len(dmms) = 2
    /\ Len(confCalls) = 2
    /\ confCalls[1].val_range # confCalls[2].val_range

\* the protocol keyword of each mode
Subject(mode) ==
    CASE mode = "DCV" -> "VOLT:DC"
      [] mode = "ACV" -> "VOLT:AC"
      [] mode = "DCI" -> "CURR:DC"
      [] mode = "ACI" -> "CURR:AC"
      [] mode = "RES2" -> "RES"
      [] mode = "RES4" -> "FRES"
      [] mode = "FREQ" -> "FREQ"
      [] mode = "PER" -> "PER"

\* CONF:<SUBJECT> <range>, <resolution> and the line terminator
ExpectedCommand(call) ==
    "CONF:" \o Subject(call.conf) \o " " \o IntStr(call.val_range)
            \o ", " \o FloatStr(call.val_res) \o "\n"

\* C10: each set_CONF call with one of the eight modes writes exactly one
\* command, CONF:<SUBJECT> <range>, <resolution>\n with the mode's SUBJECT,
\* and calls with different modes write different commands.
C10_ConfCommand ==
    (pc = "handle" /\ \A i \in 1..Len(confCalls) : confCalls[i].conf \in KnownModes)
        => /\ tx[1] = <<REMOTE>> \o [i \in 1..Len(confCalls) |->
                                        ExpectedCommand(confCalls[i])]
           /\ \A i, j \in 1..Len(confCalls) :
                (/\ Len(tx[1]) = 1 + Len(confCalls)
                 /\ tx[1][i + 1] = tx[1][j + 1])
                    => confCalls[i].conf = confCalls[j].conf

\* C10 witness: 2-wire and then 4-wire resistance configured on the handle
C10_Witness ==
    /\ pc = "handle"
    /\ Len(confCalls) = 2
    /\ confCalls[1].conf = "RES2"
    /\ confCalls[2].conf = "RES4"
    /\ confCalls[1].val_res = 3
    /\ confCalls[2].val_res = 6
    /\ Len(tx[1]) = 3

\* the set_CONF calls made so far that named one of the eight modes
KnownCalls == { i \in 1..Len(confCalls) : confCalls[i].conf \in KnownModes }

\* C11: a set_CONF call with a mode outside the eight known ones writes
\* nothing on the connection and raises nothing, and the port stays as it
\* was: the handle's log grows by the calls with known modes only.
C11_UnknownModeNoOp ==
    pc = "handle"
        => /\ Len(tx[1]) = 1 + Cardinality(KnownCalls)
           /\ isOpen[1]
           /\ result = NoResult

\* C11 witness: an unknown mode, then DC voltage, configured on the handle
C11_Witness ==
    /\ pc = "handle"
    /\ Len(confCalls) = 2
    /\ confCalls[1].conf = "TEMP"
    /\ confCalls[2].conf = "DCV"
    /\ Len(tx[1]) = 2

(* ===================== the polling loop of read_DMMs =================== *)
\* how often READ? was written on handle d
ReadCount(d) == Cardinality({ k \in 1..Len(tx[d]) : tx[d][k] = READQ })

\* the arguments let the run get to its loop and nothing cut it short: the
\* range is a number or a list not shorter than dmms, every port opened,
\* and no KeyboardInterrupt arrived
Undisturbed ==
    /\ val_range.list => Len(val_range.items) >= Len(dmms)
    /\ result # "SerialException"
    /\ cancelPc = "none"

\* C12: with meas_time = 0 no READ? is ever written on any handle, and a run
\* that is not cut short (see Undisturbed) returns a matrix with zero rows
\* and no error, whatever the number of handles and the sleep_time.
C12_ZeroDuration ==
    meas_time = 0
        => /\ \A d \in Devs : ReadCount(d) = 0
           /\ tocLog = <<>>
           /\ (pc = "done" /\ Undisturbed)
                => (result = "returned" /\ matrix = <<>>)

\* C12 witness: two handles, a sleep_time of one second, meas_time 0
C12_Witness ==
    /\ meas_time = 0
    /\ sleep_time = 1
    /\ Len(dmms) = 2
    /\ pc = "done"
    /\ result = "returned"
    /\ cancelPc = "none"
    /\ matrix = <<>>

(* ============================== init_DMMs ============================== *)
\* C13: init_DMMs opens one handle per port found, in the order found; if
\* opening a port raises, init_DMMs raises too: the port is not skipped, no
\* shorter list comes back and nothing is configured or read; with no
\* ports it returns the empty list.
C13_InitAllOrNothing ==
    /\ own => /\ dmms = Upto(ports)
              /\ \A d \in 1..ports : tx[d] # <<>> /\ tx[d][1] = REMOTE
    /\ (dmms = <<>> /\ pc \notin {"entry", "done", "handle"}) => (own /\ ports = 0)
    /\ result = "SerialException"
         => /\ ~own
            /\ dmms = <<>>
            /\ pc = "done"
            /\ matrix = NoMatrix
            /\ confCalls = <<>>
            /\ \A d \in Devs : ReadCount(d) = 0

\* C13 witness: of two ports the first opened and the second raised
C13_Witness ==
    /\ result = "SerialException"
    /\ ports = 2
    /\ tx[1] = <<REMOTE>>
    /\ tx[2] = <<>>

\* a CONF command has been written on handle d
HasConf(d) == \E k \in 1..Len(tx[d]) : tx[d][k] \notin {REMOTE, READQ}

\* C14: READ? is written on a handle only after every handle of the run has
\* been sent a CONF command.
C14_ReadOnlyConfigured ==
    (\E d \in Devs : ReadCount(d) > 0)
        => \A j \in 1..Len(dmms) : HasConf(dmms[j])

\* the read_meas call on the j-th handle has begun and not returned a value:
\* it is under way, or the run ended inside it
Pending(j) ==
    IF /\ j = idx
       /\ \/ pc \in {"rd1", "rd2"}
          \/ pc = "done" /\ (result = "ValueError" \/ cancelPc \in {"rd1", "rd2"})
    THEN 1 ELSE 0

\* C15: in every iteration the handles are read one after the other in the
\* order of dmms: READ? goes to the next handle only after the read of the
\* one before has returned, at most one READ? is unanswered at any time,
\* and the clock is read once per iteration, before its first READ?.
C15_SequentialReads ==
    pc # "handle"
        => /\ Cardinality({ j \in 1..Len(dmms) :
                              ReadCount(dmms[j]) > Len(readLog[dmms[j]]) }) <= 1
           /\ \A j \in 1..Len(dmms) :
                /\ ReadCount(dmms[j]) <= Len(tocLog)
                /\ Len(tocLog) <= ticks + 1
                /\ j < Len(dmms)
                     => /\ ReadCount(dmms[j + 1]) <= Len(readLog[dmms[j]])
                        /\ Len(readLog[dmms[j]]) <= Len(readLog[dmms[j + 1]]) + 1
                /\ j = Len(dmms)
                     => ReadCount(dmms[1]) <= Len(readLog[dmms[j]]) + 1
           /\ inFlight # 0 => (idx <= Len(dmms) /\ inFlight = dmms[idx])

\* C15 witness: second iteration, first handle read, READ? out on the second
C15_Witness ==
    /\ pc = "rd1"
    /\ Len(dmms) = 2
    /\ idx = 2
    /\ ticks = 1
    /\ ReadCount(dmms[2]) = 2
    /\ Len(readLog[dmms[1]]) = 2

\* the elapsed time on record when the i-th iteration was entered
PrevElapsed(i) == IF i = 1 THEN 0 ELSE tocLog[i - 1] - tic

\* C16: an iteration is entered only while the elapsed time last recorded
\* (0 at first) is below meas_time, and the loop is left by line 77 only
\* when it is not; so after a normal return with meas_time > 0 every row
\* but the last has an elapsed time < meas_time and the last one >= it.
C16_LoopTest ==
    /\ \A i \in 1..Len(tocLog) : PrevElapsed(i) < meas_time
    /\ (result = "returned" /\ cancelPc = "none")
         => /\ (toc - tic) >= meas_time
            /\ meas_time > 0
                 => /\ Len(matrix) >= 1
                    /\ matrix[Len(matrix)][1] >= meas_time
                    /\ \A i \in 1..(Len(matrix) - 1) : matrix[i][1] < meas_time

\* C16 witness: two rows, the first before and the second at meas_time
C16_Witness ==
    /\ result = "returned"
    /\ cancelPc = "none"
    /\ meas_time = 2
    /\ Len(matrix) = 2
    /\ matrix[1][1] = 1
    /\ matrix[2][1] = 2

(* ============================ DMM34401A ================================ *)
\* C17: on every handle whose port is open after construction SYSTem:REMote
\* is written exactly once, as the first command, so it precedes every CONF
\* and READ? on that connection; on a port that did not open nothing is
\* written.
C17_RemoteFirstOnce ==
    \A d \in Devs :
        /\ ((\E j \in 1..Len(dmms) : dmms[j] = d) \/ isOpen[d])
             => /\ tx[d] # <<>>
                /\ tx[d][1] = REMOTE
                /\ \A k \in 2..Len(tx[d]) : tx[d][k] # REMOTE
        /\ tx[d] # <<>> => tx[d][1] = REMOTE
        /\ d > ports => tx[d] = <<>>

\* C17 witness: a handle made by init_DMMs, then configured, then read
C17_Witness ==
    /\ own
    /\ pc = "rd1"
    /\ Len(tx[1]) = 3
    /\ tx[1][1] = REMOTE
    /\ HasConf(1)
    /\ tx[1][3] = READQ

\* C18: every read_meas call writes READ? exactly once, also when it
\* retries: on each handle the READ? commands written are as many as the
\* read_meas calls begun (those that returned a value plus the one under
\* way or cut short), while a call may have consumed two reply lines.
C18_OneReadPerCall ==
    pc # "handle"
        => \A j \in 1..Len(dmms) :
             ReadCount(dmms[j]) = Len(readLog[dmms[j]]) + Pending(j)

\* C18 witness: one call on the handle returned after consuming two lines
C18_Witness ==
    /\ Len(dmms) = 2
    /\ pc = "read"
    /\ idx = 2
    /\ Len(lastRead) = 2
    /\ ReadCount(dmms[1]) = 1
    /\ Len(readLog[dmms[1]]) = 1

(* ==================== handles after read_DMMs ends ===================== *)
\* C19: after read_DMMs has ended, on whatever path, every handle of the
\* run (given by the caller, or made by read_DMMs through init_DMMs) is
\* still open unless the caller itself let go of it.
C19_RunLeavesOpen ==
    (pc = "done" /\ ~dropped)
        => \A j \in 1..Len(dmms) : isOpen[dmms[j]]

====
